---- MODULE Spec2Model ----
(***************************************************************************)
(* A model of co2_tracker.BaseCO2Tracker (src/co2_tracker/co2_tracker.py): *)
(* one tracker instance, the caller's thread that invokes start() and      *)
(* stop(), and the BackgroundScheduler that runs _measure_power on worker  *)
(* threads.                                                                *)
(*                                                                         *)
(* Time is a discrete clock `now`.  An Energy value is held as its         *)
(* numerator over KwhDivisor (power in W times seconds), so that sums are  *)
(* exact: e stands for e / KwhDivisor kWh.                                 *)
(***************************************************************************)
EXTENDS Integers, Sequences, FiniteSets

\* ---------------------------------------------------------------- bounds
MaxTime == 4
MaxInterval == 2
MaxPower == 1
MaxCalls == 3
MaxSinks == 2
MaxRuns == 4
MaxLen == 3
MaxRows == 3
MaxImpact == 2
MaxUsers == 3
Workers == 2

\* ------------------------------------------------------------- constants
\* Optional[float] = None of _start_time
NoTime == -1
\* job_defaults of the scheduler: one running instance per job
MaxInstances == 1
\* Energy.from_power_and_time: W * s / 3600 / 1000 is kWh
KwhDivisor == 3600000

Powers == 0..MaxPower
Intervals == 1..MaxInterval
WorkerIds == 1..Workers
Providers == {"none", "aws"}
Countries == {"CAN", "USA"}

VARIABLES
  \* fields of the tracker
  measure_power_secs, start_time, total_energy, is_gpu_available,
  persistence_objs, offline, country_iso_code, country_name,
  \* the BackgroundScheduler: state, pending/added jobs, the trigger of the job
  sched, jobs, trigger_start, next_run_time, inst,
  \* the clock
  now,
  \* the caller's thread: position in stop() and stop()'s locals
  pc, cloud, geo, duration, emissions, data, outIdx,
  \* outcome of the last call
  ret,
  \* history: the calls made in order, records built, (sink, record) deliveries in order,
  \* firings completed and their exact energy sum, firings skipped,
  \* power values read, time of the stop() call and, until the duration is
  \* computed or stop() fails, of the return of its shutdown, energy read for
  \* emissions
  calls, records, delivered, nFired, sumCompleted, nSkipped, readings,
  stopCallTime, joinTime, energyRead, completed,
  \* the caller: how the tracker is made (by the decorator or directly), the
  \* position of the wrapped call, the country arguments it passes, and the
  \* metering capability of the machine at this moment
  entry, fn, arg_iso, arg_name, gpu_now,
  \* the dashboard: the list given to get_project_summary and its result,
  \* the arguments of get_cloud_emissions_barchart_data (with the table of
  \* the data source) and its result
  project_data, project_summary, barchart_args, barchart_ret,
  \* the server: the arguments of UserWithAuthDependency (with the users of
  \* the database) and the object built
  auth_args, user_dep

trackerVars == <<measure_power_secs, start_time, total_energy, is_gpu_available,
                 persistence_objs, offline, country_iso_code, country_name>>
schedVars == <<sched, jobs, trigger_start, next_run_time, inst>>
localVars == <<cloud, geo, duration, emissions, data, outIdx>>
histVars == <<records, delivered, nFired, sumCompleted, nSkipped, readings,
              stopCallTime, joinTime, energyRead, completed>>
wrapVars == <<entry, fn, arg_iso, arg_name, gpu_now>>
summaryVars == <<project_data, project_summary>>
barchartVars == <<barchart_args, barchart_ret>>
authVars == <<auth_args, user_dep>>
pureVars == <<summaryVars, barchartVars, authVars>>
vars == <<trackerVars, schedVars, now, pc, localVars, ret, calls, histVars,
          wrapVars, pureVars>>

\* ------------------------------------------------------------ value types
\* Energy.from_energy(kwh)
FromEnergy(kwh) == kwh * KwhDivisor

\* Energy.from_power_and_time(power, time)
FromPowerAndTime(power, secs) == power * secs

\* Energy.__add__
EnergyAdd(a, b) == a + b

NoCloud == [provider |-> "none", region |-> "none"]
NoGeo == [country_iso_code |-> "none", country_name |-> "none", region |-> "none"]
NoData == [duration |-> 0, emissions |-> 0, energy_consumed |-> 0,
           country_name |-> "none", country_iso_code |-> "none",
           region |-> "none", on_cloud |-> "none",
           cloud_provider |-> "none", cloud_region |-> "none"]

\* what a call gave its caller: nothing yet, None, a value, or an exception
NoRet == [call |-> "none", kind |-> "none", value |-> 0, error |-> "none"]
Returned(call, kind, value) ==
  [call |-> call, kind |-> kind, value |-> value, error |-> "none"]
InCall(call) == Returned(call, "running", 0)
Raised(call, error) ==
  [call |-> call, kind |-> "raised", value |-> 0, error |-> error]

\* CloudMetadata.is_on_private_infra
IsOnPrivateInfra(c) == c.provider = "none"

\* emission factors (kg per kWh) of the data source
CountryFactor(iso) == IF iso = "CAN" THEN 1 ELSE 2
CloudFactor(provider, region) == 3

\* Emissions.get_private_infra_emissions
GetPrivateInfraEmissions(energy, g) == CountryFactor(g.country_iso_code) * energy

\* Emissions.get_cloud_emissions
GetCloudEmissions(energy, c) == CloudFactor(c.provider, c.region) * energy

\* the name of the country of an ISO code, as the geolocation service gives it
CountryName(iso) == IF iso = "CAN" THEN "Canada" ELSE "United States"

\* Emissions.get_cloud_country_name / get_cloud_country_iso_code /
\* get_cloud_geo_region: where the data centre of a cloud region stands
GetCloudCountryName(c) == "United States"
GetCloudCountryIsoCode(c) == "USA"
GetCloudGeoRegion(c) == "virginia"

\* ------------------------------------------------------------- scheduler
InFlight == {i \in WorkerIds : inst[i].pc # "idle"}

IdleInst == [pc |-> "idle", loaded |-> 0, power |-> 0]

\* variant: the first run is the trigger's start date, whatever the time
FirstFireTimeUnaligned(t) == trigger_start

\* IntervalTrigger.get_next_fire_time(None, t): the first point of the grid
\* trigger_start + k * interval that is not before t
FirstFireTime(t) ==
  IF trigger_start > t THEN trigger_start
  ELSE LET diff == t - trigger_start
           k == (diff + measure_power_secs - 1) \div measure_power_secs
       IN trigger_start + k * measure_power_secs

\* variant: the job runs whether or not the scheduler has been started
DueUnstarted == jobs > 0 /\ next_run_time <= now

\* a run of the job is due
Due == sched = "running" /\ jobs > 0 /\ next_run_time <= now

\* variant: the executor takes any number of instances of the job
CanSubmitUnlimited == TRUE

\* the executor accepts another instance of the job
CanSubmit == Cardinality(InFlight) < MaxInstances

\* ------------------------------------------------------------------ Init
\* no call of the dashboard's or the server's functions is made in the
\* tracker's process
NoCall == [kind |-> "none"]
SummaryAtRest == project_data = <<>> /\ project_summary = NoCall
BarchartAtRest == barchart_args = NoCall /\ barchart_ret = NoCall
AuthAtRest == auth_args = NoCall /\ user_dep = NoCall
PureAtRest == SummaryAtRest /\ BarchartAtRest /\ AuthAtRest

Init ==
  /\ measure_power_secs \in Intervals
  /\ start_time = NoTime
  /\ total_energy = FromEnergy(0)
  /\ is_gpu_available \in BOOLEAN
  /\ offline \in BOOLEAN
  /\ country_iso_code \in (IF offline THEN Countries ELSE {"none"})
  /\ country_name = IF offline THEN CountryName(country_iso_code) ELSE "none"
  /\ entry = "direct" /\ fn = "none"
  /\ arg_iso = country_iso_code /\ arg_name = country_name
  /\ gpu_now = is_gpu_available
  /\ \E save_to_file \in BOOLEAN :
       persistence_objs = IF save_to_file THEN <<1>> ELSE <<>>
  /\ sched = "stopped"
  /\ jobs = 1
  /\ now = 0
  /\ trigger_start = now + measure_power_secs
  /\ next_run_time = NoTime
  /\ inst = [i \in WorkerIds |-> IdleInst]
  /\ pc = "idle"
  /\ cloud = NoCloud /\ geo = NoGeo /\ duration = 0 /\ emissions = 0
  /\ data = NoData /\ outIdx = 0
  /\ ret = NoRet
  /\ calls = <<>>
  /\ records = <<>> /\ delivered = <<>>
  /\ nFired = 0 /\ sumCompleted = 0 /\ nSkipped = 0 /\ readings = {}
  /\ stopCallTime = NoTime /\ joinTime = NoTime /\ energyRead = 0 /\ completed = 0
  /\ PureAtRest

\* ------------------------------------------------------- tracker.start()
\* variant: start() looks at the capability of the machine at the call
NoGpuReevaluated == ~gpu_now

\* variant: start() without the check of the metering capability
NoGpuUnchecked == FALSE

\* `if not self._is_gpu_available`
NoGpu == ~is_gpu_available

\* variant: start() without the check of an earlier start
AlreadyStartedUnchecked == FALSE

\* `if self._start_time is not None`
AlreadyStarted == start_time # NoTime

\* variant: BackgroundScheduler.start(paused=True), which processes no job
SchedulerStartPaused ==
  IF sched = "running"
  THEN /\ ret' = Raised("start", "SchedulerAlreadyRunning")
       /\ UNCHANGED <<sched, next_run_time>>
  ELSE /\ sched' = "paused"
       /\ next_run_time' = FirstFireTime(now)
       /\ ret' = Returned("start", "None", 0)

\* BackgroundScheduler.start(): raises when running, else adds the pending
\* job with its first run time and runs
SchedulerStart ==
  IF sched = "running"
  THEN /\ ret' = Raised("start", "SchedulerAlreadyRunning")
       /\ UNCHANGED <<sched, next_run_time>>
  ELSE /\ sched' = "running"
       /\ next_run_time' = FirstFireTime(now)
       /\ ret' = Returned("start", "None", 0)

Start ==
  /\ pc = "idle"
  /\ Len(calls) < MaxCalls
  /\ calls' = Append(calls, "start")
  /\ IF NoGpu \/ AlreadyStarted
     THEN /\ ret' = Returned("start", "None", 0)
          /\ UNCHANGED <<start_time, sched, next_run_time>>
     ELSE /\ start_time' = now
          /\ SchedulerStart
  /\ UNCHANGED <<wrapVars, pureVars>>
  /\ UNCHANGED <<measure_power_secs, total_energy, is_gpu_available,
                 persistence_objs, offline, country_iso_code, country_name, jobs,
                 trigger_start, inst, now, pc, localVars, histVars>>

\* the caller appends a sink to the public list persistence_objs
AddOutput ==
  /\ pc = "idle"
  /\ calls = <<>>
  /\ Len(persistence_objs) < MaxSinks
  /\ persistence_objs' = Append(persistence_objs, Len(persistence_objs) + 1)
  /\ UNCHANGED <<wrapVars, pureVars>>
  /\ UNCHANGED <<measure_power_secs, start_time, total_energy,
                 is_gpu_available, offline, country_iso_code, country_name,
                 schedVars, now,
                 pc, localVars, ret, calls, histVars>>

\* -------------------------------------------------------- tracker.stop()
\* variant: stop() without the check of the start timestamp
NotStartedUnchecked == FALSE

\* `if self._start_time is None`
NotStarted == start_time = NoTime

\* `self._scheduler.shutdown()`: raises when not running, else stops
\* scheduling and waits for the running instances
SchedulerShutdown ==
  IF sched # "running"
  THEN /\ ret' = Raised("stop", "SchedulerNotRunning")
       /\ UNCHANGED <<sched, pc, stopCallTime>>
  ELSE /\ sched' = "stopped"
       /\ pc' = "shutdown"
       /\ stopCallTime' = now
       /\ ret' = InCall("stop")

Stop_Call ==
  /\ pc = "idle"
  /\ Len(calls) < MaxCalls
  /\ calls' = Append(calls, "stop")
  /\ IF NotStarted
     THEN /\ ret' = Returned("stop", "None", 0)
          /\ UNCHANGED <<sched, pc, stopCallTime>>
     ELSE SchedulerShutdown
  /\ UNCHANGED <<wrapVars, pureVars>>
  /\ UNCHANGED <<trackerVars, jobs, trigger_start, next_run_time, inst, now,
                 localVars, records, delivered, nFired, sumCompleted,
                 nSkipped, readings, joinTime, energyRead, completed>>

\* variant: shutdown() waits for an event that no thread sets
ShutdownReturnsNever == FALSE

\* variant: shutdown(wait=False) returns at once
ShutdownReturnsAtOnce == TRUE

\* shutdown(wait=True) returns once no instance of the job is running
ShutdownReturns == InFlight = {}

Stop_ShutdownJoin ==
  /\ pc = "shutdown"
  /\ ShutdownReturns
  /\ pc' = "cloud"
  /\ joinTime' = now
  /\ UNCHANGED <<wrapVars, pureVars>>
  /\ UNCHANGED <<trackerVars, schedVars, now, localVars, ret, calls, records,
                 delivered, nFired, sumCompleted, nSkipped, readings,
                 stopCallTime, energyRead, completed>>

\* _get_cloud_metadata: the offline tracker has no provider, the online one
\* asks the instance's metadata endpoint, which may fail
Stop_CloudMetadata ==
  /\ pc = "cloud"
  /\ IF offline
     THEN /\ cloud' = NoCloud
          /\ pc' = "geo"
          /\ UNCHANGED <<ret, joinTime>>
     ELSE \/ /\ \E p \in Providers :
                  cloud' = [provider |-> p,
                            region |-> IF p = "none" THEN "none" ELSE "r1"]
             /\ pc' = "geo"
             /\ UNCHANGED <<ret, joinTime>>
          \/ /\ ret' = Raised("stop", "resolution")
             /\ pc' = "idle"
             /\ joinTime' = NoTime
             /\ UNCHANGED cloud
  /\ UNCHANGED <<wrapVars, pureVars>>
  /\ UNCHANGED <<trackerVars, schedVars, now, geo, duration, emissions, data,
                 outIdx, calls, records, delivered, nFired, sumCompleted, nSkipped, readings,
                 stopCallTime, energyRead, completed>>

\* _get_geo_metadata: the offline tracker gives its own country, the online
\* one asks the geolocation service, which may fail
Stop_GeoMetadata ==
  /\ pc = "geo"
  /\ IF offline
     THEN /\ geo' = [country_iso_code |-> country_iso_code,
                     country_name |-> country_name, region |-> "none"]
          /\ pc' = "duration"
          /\ UNCHANGED <<ret, joinTime>>
     ELSE \/ /\ \E c \in Countries :
                  geo' = [country_iso_code |-> c,
                          country_name |-> CountryName(c), region |-> "none"]
             /\ pc' = "duration"
             /\ UNCHANGED <<ret, joinTime>>
          \/ /\ ret' = Raised("stop", "resolution")
             /\ pc' = "idle"
             /\ joinTime' = NoTime
             /\ UNCHANGED geo
  /\ UNCHANGED <<wrapVars, pureVars>>
  /\ UNCHANGED <<trackerVars, schedVars, now, cloud, duration, emissions, data,
                 outIdx, calls, records, delivered, nFired, sumCompleted, nSkipped, readings,
                 stopCallTime, energyRead, completed>>

\* `duration = Time.from_seconds(time.time() - self._start_time)`
Stop_Duration ==
  /\ pc = "duration"
  /\ duration' = now - start_time
  /\ pc' = "emissions"
  /\ joinTime' = NoTime
  /\ UNCHANGED <<wrapVars, pureVars>>
  /\ UNCHANGED <<trackerVars, schedVars, now, cloud, geo, emissions, data,
                 outIdx, ret, calls, records, delivered, nFired, sumCompleted, nSkipped, readings,
                 stopCallTime, energyRead, completed>>

\* variant: the emissions are always those of private infrastructure
Stop_EmissionsPrivateOnly ==
  /\ pc = "emissions"
  /\ emissions' = GetPrivateInfraEmissions(total_energy, geo)
  /\ energyRead' = total_energy
  /\ pc' = "data"
  /\ UNCHANGED <<wrapVars, pureVars>>
  /\ UNCHANGED <<trackerVars, schedVars, now, cloud, geo, duration, data,
                 outIdx, ret, calls, records, delivered, nFired, sumCompleted,
                 nSkipped, readings, stopCallTime, joinTime, completed>>

\* `if cloud.is_on_private_infra: emissions = ... else: emissions = ...`
Stop_Emissions ==
  /\ pc = "emissions"
  /\ emissions' = IF IsOnPrivateInfra(cloud)
                  THEN GetPrivateInfraEmissions(total_energy, geo)
                  ELSE GetCloudEmissions(total_energy, cloud)
  /\ energyRead' = total_energy
  /\ pc' = "data"
  /\ UNCHANGED <<wrapVars, pureVars>>
  /\ UNCHANGED <<trackerVars, schedVars, now, cloud, geo, duration, data,
                 outIdx, ret, calls, records, delivered, nFired, sumCompleted,
                 nSkipped, readings, stopCallTime, joinTime, completed>>

\* `data = CO2Data(...)`
Stop_Data ==
  /\ pc = "data"
  /\ data' = [duration |-> duration,
              emissions |-> emissions,
              energy_consumed |-> total_energy,
              country_name |-> IF IsOnPrivateInfra(cloud)
                               THEN geo.country_name
                               ELSE GetCloudCountryName(cloud),
              country_iso_code |-> IF IsOnPrivateInfra(cloud)
                                   THEN geo.country_iso_code
                                   ELSE GetCloudCountryIsoCode(cloud),
              region |-> IF IsOnPrivateInfra(cloud)
                         THEN geo.region ELSE GetCloudGeoRegion(cloud),
              on_cloud |-> IF IsOnPrivateInfra(cloud) THEN "N" ELSE "Y",
              cloud_provider |-> IF IsOnPrivateInfra(cloud)
                                 THEN "" ELSE cloud.provider,
              cloud_region |-> IF IsOnPrivateInfra(cloud)
                               THEN "" ELSE cloud.region]
  /\ records' = Append(records, data')
  /\ outIdx' = 1
  /\ pc' = "out"
  /\ UNCHANGED <<wrapVars, pureVars>>
  /\ UNCHANGED <<trackerVars, schedVars, now, cloud, geo, duration, emissions,
                 ret, calls, delivered, nFired, sumCompleted, nSkipped,
                 readings, stopCallTime, joinTime, energyRead, completed>>

\* variant: the loop passes over a sink without calling it
Stop_OutSkips ==
  /\ pc = "out"
  /\ outIdx <= Len(persistence_objs)
  /\ outIdx' = outIdx + 1
  /\ UNCHANGED <<wrapVars, pureVars>>
  /\ UNCHANGED <<trackerVars, schedVars, now, pc, cloud, geo, duration,
                 emissions, data, ret, calls, histVars>>

\* `for persistence in self.persistence_objs: persistence.out(data)`; out()
\* may fail with an I/O error, which nothing in stop() catches
Stop_Out ==
  /\ pc = "out"
  /\ outIdx <= Len(persistence_objs)
  /\ \/ /\ delivered' = Append(delivered, [sink |-> persistence_objs[outIdx],
                                           record |-> data])
        /\ outIdx' = outIdx + 1
        /\ UNCHANGED <<pc, ret>>
     \/ /\ ret' = Raised("stop", "sink")
        /\ pc' = "idle"
        /\ UNCHANGED <<delivered, outIdx>>
  /\ UNCHANGED <<wrapVars, pureVars>>
  /\ UNCHANGED <<trackerVars, schedVars, now, cloud, geo, duration, emissions,
                 data, calls, records, nFired, sumCompleted, nSkipped,
                 readings, stopCallTime, joinTime, energyRead, completed>>

\* variant: stop() clears the start timestamp when it returns
Stop_ReturnResets ==
  /\ pc = "out"
  /\ outIdx > Len(persistence_objs)
  /\ ret' = Returned("stop", "value", emissions)
  /\ completed' = completed + 1
  /\ pc' = "idle"
  /\ start_time' = NoTime
  /\ UNCHANGED <<wrapVars, pureVars>>
  /\ UNCHANGED <<measure_power_secs, total_energy, is_gpu_available,
                 persistence_objs, offline, country_iso_code, country_name,
                 schedVars, now, localVars, calls, records,
                 delivered, nFired, sumCompleted, nSkipped, readings,
                 stopCallTime, joinTime, energyRead>>

\* `return emissions`
Stop_Return ==
  /\ pc = "out"
  /\ outIdx > Len(persistence_objs)
  /\ ret' = Returned("stop", "value", emissions)
  /\ completed' = completed + 1
  /\ pc' = "idle"
  /\ UNCHANGED <<wrapVars, pureVars>>
  /\ UNCHANGED <<trackerVars, schedVars, now, localVars, calls, records,
                 delivered, nFired, sumCompleted, nSkipped, readings,
                 stopCallTime, joinTime, energyRead>>

\* ------------------------------------------ the scheduler's worker threads
\* the least idle worker takes the run
FreeWorker(i) ==
  /\ inst[i].pc = "idle"
  /\ \A j \in WorkerIds : j < i => inst[j].pc # "idle"

\* a due run is submitted and _measure_power starts: it loads
\* self._total_energy and reads self._hardware.total_power
MeasurePower_Load(i) ==
  /\ Due
  /\ CanSubmit
  /\ FreeWorker(i)
  /\ \E p \in Powers :
       /\ inst' = [inst EXCEPT ![i] = [pc |-> "loaded",
                                       loaded |-> total_energy, power |-> p]]
       /\ readings' = readings \cup {p}
  /\ next_run_time' = next_run_time + measure_power_secs
  /\ UNCHANGED <<wrapVars, pureVars>>
  /\ UNCHANGED <<trackerVars, sched, jobs, trigger_start, now, pc, localVars,
                 ret, calls, records, delivered, nFired, sumCompleted,
                 nSkipped, stopCallTime, joinTime, energyRead, completed>>

\* variant: _measure_power stores the last sample in place of the sum
MeasurePower_StoreOverwrite(i) ==
  /\ inst[i].pc = "loaded"
  /\ total_energy' = FromPowerAndTime(inst[i].power, measure_power_secs)
  /\ inst' = [inst EXCEPT ![i] = IdleInst]
  /\ nFired' = nFired + 1
  /\ sumCompleted' = sumCompleted + inst[i].power * measure_power_secs
  /\ UNCHANGED <<wrapVars, pureVars>>
  /\ UNCHANGED <<measure_power_secs, start_time, is_gpu_available,
                 persistence_objs, offline, country_iso_code, country_name,
                 sched, jobs,
                 trigger_start, next_run_time, now, pc, localVars, ret, calls,
                 records, delivered, nSkipped, readings, stopCallTime, joinTime,
                 energyRead, completed>>

\* _measure_power stores the sum into self._total_energy and ends
MeasurePower_Store(i) ==
  /\ inst[i].pc = "loaded"
  /\ total_energy' =
       EnergyAdd(inst[i].loaded,
                 FromPowerAndTime(inst[i].power, measure_power_secs))
  /\ inst' = [inst EXCEPT ![i] = IdleInst]
  /\ nFired' = nFired + 1
  /\ sumCompleted' = sumCompleted + inst[i].power * measure_power_secs
  /\ UNCHANGED <<wrapVars, pureVars>>
  /\ UNCHANGED <<measure_power_secs, start_time, is_gpu_available,
                 persistence_objs, offline, country_iso_code, country_name,
                 sched, jobs,
                 trigger_start, next_run_time, now, pc, localVars, ret, calls,
                 records, delivered, nSkipped, readings, stopCallTime, joinTime,
                 energyRead, completed>>

\* a due run is skipped while the job's instance limit is reached
SkipRun ==
  /\ Due
  /\ ~CanSubmit
  /\ next_run_time' = next_run_time + measure_power_secs
  /\ nSkipped' = nSkipped + 1
  /\ UNCHANGED <<wrapVars, pureVars>>
  /\ UNCHANGED <<trackerVars, sched, jobs, trigger_start, inst, now, pc,
                 localVars, ret, calls, records, delivered, nFired,
                 sumCompleted, readings, stopCallTime, joinTime, energyRead, completed>>

\* ------------------------------------------------------------- the clock
\* time passes while the caller is between calls or blocked in stop() on
\* the scheduler or the network; a due run is handled before the next tick
Tick ==
  /\ now < MaxTime
  /\ ~Due
  /\ pc \in {"idle", "shutdown", "cloud", "geo"}
  /\ now' = now + 1
  /\ UNCHANGED <<wrapVars, pureVars>>
  /\ UNCHANGED <<trackerVars, schedVars, pc, localVars, ret, calls, histVars>>

\* as Tick, and a sample takes less than a tick
TickTimely ==
  /\ InFlight = {}
  /\ Tick

Next ==
  \/ Start
  \/ AddOutput
  \/ Stop_Call
  \/ Stop_ShutdownJoin
  \/ Stop_CloudMetadata
  \/ Stop_GeoMetadata
  \/ Stop_Duration
  \/ Stop_Emissions
  \/ Stop_Data
  \/ Stop_Out
  \/ Stop_Return
  \/ \E i \in WorkerIds : MeasurePower_Load(i)
  \/ \E i \in WorkerIds : MeasurePower_Store(i)
  \/ SkipRun
  \/ Tick

Spec == Init /\ [][Next]_vars

NextTimely ==
  \/ Start
  \/ AddOutput
  \/ Stop_Call
  \/ Stop_ShutdownJoin
  \/ Stop_CloudMetadata
  \/ Stop_GeoMetadata
  \/ Stop_Duration
  \/ Stop_Emissions
  \/ Stop_Data
  \/ Stop_Out
  \/ Stop_Return
  \/ \E i \in WorkerIds : MeasurePower_Load(i)
  \/ \E i \in WorkerIds : MeasurePower_Store(i)
  \/ TickTimely

SpecTimely == Init /\ [][NextTimely]_vars

\* ------------------------------------------------- track_co2 and __init__
\* a country argument of the caller: absent, or a value
IsoArgs == {"None"} \cup Countries
NameArgs == {"None"} \cup {CountryName(c) : c \in Countries}

\* OfflineCO2Tracker.__init__: `"CAN" if country_iso_code is None else ...`
OfflineCountryIsoCode(a) == IF a = "None" THEN "CAN" ELSE a

\* OfflineCO2Tracker.__init__: `"Canada" if country_name is None else ...`
OfflineCountryName(a) == IF a = "None" THEN "Canada" ELSE a

\* the tracker has been constructed
Constructed == jobs = 1

\* before the wrapped function is called (entry "decorator") or before the
\* caller constructs a tracker itself (entry "direct"): no tracker yet
InitWrapped ==
  /\ entry \in {"decorator", "direct"}
  /\ fn = IF entry = "decorator" THEN "check" ELSE "construct"
  /\ offline \in BOOLEAN
  /\ arg_iso \in (IF offline THEN IsoArgs ELSE {"None"})
  /\ arg_name \in (IF offline THEN NameArgs ELSE {"None"})
  /\ gpu_now \in BOOLEAN
  /\ measure_power_secs \in Intervals
  /\ start_time = NoTime
  /\ total_energy = FromEnergy(0)
  /\ is_gpu_available = FALSE
  /\ country_iso_code = "none" /\ country_name = "none"
  /\ persistence_objs = <<>>
  /\ sched = "stopped"
  /\ jobs = 0
  /\ now = 0
  /\ trigger_start = NoTime
  /\ next_run_time = NoTime
  /\ inst = [i \in WorkerIds |-> IdleInst]
  /\ pc = "idle"
  /\ cloud = NoCloud /\ geo = NoGeo /\ duration = 0 /\ emissions = 0
  /\ data = NoData /\ outIdx = 0
  /\ ret = NoRet
  /\ calls = <<>>
  /\ records = <<>> /\ delivered = <<>>
  /\ nFired = 0 /\ sumCompleted = 0 /\ nSkipped = 0 /\ readings = {}
  /\ stopCallTime = NoTime /\ joinTime = NoTime /\ energyRead = 0 /\ completed = 0
  /\ PureAtRest

\* wrapped_fn: `if offline: if country_iso_code is None: raise Exception`
W_Check ==
  /\ fn = "check"
  /\ IF offline /\ arg_iso = "None"
     THEN /\ fn' = "rejected"
          /\ ret' = Raised("wrapped_fn", "NeedsIsoCode")
     ELSE /\ fn' = "construct"
          /\ UNCHANGED ret
  /\ UNCHANGED <<trackerVars, schedVars, now, pc, localVars, calls, histVars,
                 entry, arg_iso, arg_name, gpu_now, pureVars>>

\* OfflineCO2Tracker(...) / CO2Tracker(...): the country fields, then
\* BaseCO2Tracker.__init__ (the capability, the job and its trigger, the
\* file sink)
W_Construct ==
  /\ fn = "construct"
  /\ fn' = "ready"
  /\ country_iso_code' = IF offline THEN OfflineCountryIsoCode(arg_iso)
                         ELSE "none"
  /\ country_name' = IF offline THEN OfflineCountryName(arg_name) ELSE "none"
  /\ is_gpu_available' = gpu_now
  /\ jobs' = 1
  /\ trigger_start' = now + measure_power_secs
  /\ \E save_to_file \in (IF entry = "decorator" THEN {TRUE} ELSE BOOLEAN) :
       persistence_objs' = IF save_to_file THEN <<1>> ELSE <<>>
  /\ UNCHANGED <<measure_power_secs, start_time, total_energy, offline, sched,
                 next_run_time, inst, now, pc, localVars, ret, calls,
                 histVars, entry, arg_iso, arg_name, gpu_now, pureVars>>

\* `tracker.start()`
W_Start ==
  /\ fn = "ready"
  /\ calls = <<>>
  /\ Start

\* `fn(*args, **kwargs)`: the function returns or raises; nothing catches
W_Body ==
  /\ fn = "ready"
  /\ calls = <<"start">>
  /\ \/ /\ fn' = "returned"
        /\ UNCHANGED ret
     \/ /\ fn' = "raised"
        /\ ret' = Raised("fn", "body")
  /\ UNCHANGED <<trackerVars, schedVars, now, pc, localVars, calls, histVars,
                 entry, arg_iso, arg_name, gpu_now, pureVars>>

\* `tracker.stop()`
W_Stop ==
  /\ fn = "returned"
  /\ calls = <<"start">>
  /\ Stop_Call

\* the machine gains or loses its metering capability
CapabilityChanges ==
  /\ gpu_now' = ~gpu_now
  /\ UNCHANGED <<trackerVars, schedVars, now, pc, localVars, ret, calls,
                 histVars, entry, fn, arg_iso, arg_name, pureVars>>

\* the wrapped call (or the direct caller's scope) has ended
WrappedEnded ==
  \/ fn \in {"rejected", "raised"}
  \/ fn = "returned" /\ Len(calls) = 2 /\ pc = "idle"

NextWrapped ==
  \/ W_Check
  \/ W_Construct
  \/ W_Start
  \/ W_Body
  \/ W_Stop
  \/ Stop_ShutdownJoin
  \/ Stop_CloudMetadata
  \/ Stop_GeoMetadata
  \/ Stop_Duration
  \/ Stop_Emissions
  \/ Stop_Data
  \/ Stop_Out
  \/ Stop_Return
  \/ \E i \in WorkerIds : MeasurePower_Load(i)
  \/ \E i \in WorkerIds : MeasurePower_Store(i)
  \/ SkipRun
  \/ Tick
  \/ CapabilityChanges

SpecWrapped == InitWrapped /\ [][NextWrapped]_vars

\* ---------------------------------------------------------- fair runs
\* the caller's thread, once inside stop(), takes its next step (the
\* resolvers and the sinks answer, with a value or an error)
StopSteps ==
  \/ Stop_ShutdownJoin
  \/ Stop_CloudMetadata
  \/ Stop_GeoMetadata
  \/ Stop_Duration
  \/ Stop_Emissions
  \/ Stop_Data
  \/ Stop_Out
  \/ Stop_Return

\* the scheduler's thread submits a due run and a running _measure_power ends
SamplerSteps ==
  \/ \E i \in WorkerIds : MeasurePower_Load(i)
  \/ \E i \in WorkerIds : MeasurePower_Store(i)

Fairness ==
  /\ WF_vars(StopSteps)
  /\ WF_vars(SamplerSteps)
  /\ WF_vars(Tick)

SpecLive == Init /\ [][Next]_vars /\ Fairness

\* ------------------------------------------------- no tracker (dashboard)
\* the dashboard's process constructs no tracker
TrackerAtRest ==
  /\ entry = "direct" /\ fn = "none"
  /\ offline = FALSE /\ arg_iso = "None" /\ arg_name = "None"
  /\ gpu_now = FALSE
  /\ measure_power_secs = 1
  /\ start_time = NoTime
  /\ total_energy = FromEnergy(0)
  /\ is_gpu_available = FALSE
  /\ country_iso_code = "none" /\ country_name = "none"
  /\ persistence_objs = <<>>
  /\ sched = "stopped"
  /\ jobs = 0
  /\ now = 0
  /\ trigger_start = NoTime
  /\ next_run_time = NoTime
  /\ inst = [i \in WorkerIds |-> IdleInst]
  /\ pc = "idle"
  /\ cloud = NoCloud /\ geo = NoGeo /\ duration = 0 /\ emissions = 0
  /\ data = NoData /\ outIdx = 0
  /\ ret = NoRet
  /\ calls = <<>>
  /\ records = <<>> /\ delivered = <<>>
  /\ nFired = 0 /\ sumCompleted = 0 /\ nSkipped = 0 /\ readings = {}
  /\ stopCallTime = NoTime /\ joinTime = NoTime /\ energyRead = 0 /\ completed = 0

trackerSide == <<trackerVars, schedVars, now, pc, localVars, ret, calls,
                 histVars, wrapVars>>

\* ------------------------------------------- Data.get_project_summary
\* the rows of a project as the dashboard reads them from the emissions
\* file: run r of the catalogue, its three quantities told apart, on
\* private infrastructure or on a cloud
Run(r) ==
  [timestamp |-> r,
   duration |-> r,
   emissions |-> 2 * r + 1,
   energy_consumed |-> 3 * r + 2,
   country_name |-> IF r % 2 = 1 THEN "Canada" ELSE "United States",
   country_iso_code |-> IF r % 2 = 1 THEN "CAN" ELSE "USA",
   region |-> IF r % 2 = 1 THEN "none" ELSE "virginia",
   on_cloud |-> IF r % 2 = 1 THEN "N" ELSE "Y",
   cloud_provider |-> IF r % 2 = 1 THEN "" ELSE "aws",
   cloud_region |-> IF r % 2 = 1 THEN "" ELSE "r1"]

RunLists ==
  UNION {[1..n -> {Run(r) : r \in 1..MaxRuns}] : n \in 0..MaxLen}

\* `sum(map(lambda experiment: experiment[field], project_data))`: from 0,
\* left to right
RECURSIVE SumFrom(_, _, _, _)
SumFrom(acc, l, k, field) ==
  IF k > Len(l) THEN acc ELSE SumFrom(acc + l[k][field], l, k + 1, field)
Sum(l, field) == SumFrom(0, l, 1, field)

\* variant: the summary is taken from the first run of the list
LastRunFirst(l) == l[1]

\* `last_run = project_data[-1]`
LastRun(l) == l[Len(l)]

GetProjectSummary(l) ==
  LET last_run == LastRun(l)
  IN [kind |-> "value",
      last_run |-> [timestamp |-> last_run.timestamp,
                    duration |-> last_run.duration,
                    emissions |-> last_run.emissions,
                    energy_consumed |-> last_run.energy_consumed],
      total |-> [duration |-> Sum(l, "duration"),
                 emissions |-> Sum(l, "emissions"),
                 energy_consumed |-> Sum(l, "energy_consumed")],
      country_name |-> last_run.country_name,
      country_iso_code |-> last_run.country_iso_code,
      region |-> last_run.region,
      on_cloud |-> last_run.on_cloud,
      cloud_provider |-> last_run.cloud_provider,
      cloud_region |-> last_run.cloud_region]

InitSummary ==
  /\ TrackerAtRest
  /\ BarchartAtRest /\ AuthAtRest
  /\ project_data \in RunLists
  /\ project_summary = NoCall

\* the call; `project_data[-1]` of an empty list raises IndexError
GetProjectSummary_Call ==
  /\ project_summary = NoCall
  /\ project_summary' = IF project_data = <<>>
                        THEN [kind |-> "raised", error |-> "IndexError"]
                        ELSE GetProjectSummary(project_data)
  /\ UNCHANGED <<trackerSide, project_data, barchartVars, authVars>>

SpecSummary == InitSummary /\ [][GetProjectSummary_Call]_vars

\* ------------------------------- Data.get_cloud_emissions_barchart_data
CloudProviders == {"aws", "gcp"}
CloudRegions == {"r1", "r2"}
ProviderName(p) == IF p = "aws" THEN "Amazon Web Services"
                   ELSE "Google Cloud Platform"

\* the rows of the cloud emissions table, one for a (provider, region)
CloudRow(p, r, g) ==
  [provider |-> p, providerName |-> ProviderName(p), region |-> r,
   impact |-> g, countryName |-> IF r = "r1" THEN "USA" ELSE "Canada"]

CloudRows ==
  {CloudRow(p, r, g) : p \in CloudProviders, r \in CloudRegions,
                       g \in 1..MaxImpact}

\* get_cloud_emissions_data(): a table with no (provider, region) twice
CloudTables ==
  {t \in UNION {[1..n -> CloudRows] : n \in 0..MaxRows} :
     \A i, j \in 1..Len(t) :
       (t[i].provider = t[j].provider /\ t[i].region = t[j].region) => i = j}

\* grams in a kilogram: CO2EmissionsPerKwh.from_g_per_kwh(g).kgs_per_kwh
GramsPerKg == 1000

\* `from_g_per_kwh(row.impact).kgs_per_kwh * net_energy_consumed`, held as
\* the numerator over GramsPerKg
RowEmissions(row, net_energy_consumed) == row.impact * net_energy_consumed

\* `cloud_emissions["emissions"] = cloud_emissions.apply(...)`
WithEmissions(t, net_energy_consumed) ==
  [i \in 1..Len(t) |->
     [provider |-> t[i].provider, providerName |-> t[i].providerName,
      region |-> t[i].region, impact |-> t[i].impact,
      countryName |-> t[i].countryName,
      emissions |-> RowEmissions(t[i], net_energy_consumed)]]

\* `cloud_emissions[cloud_emissions.region == cloud_region]`
ProjectRegionRows(t, cloud_region) ==
  LET InRegion(row) == row.region = cloud_region
  IN SelectSeq(t, InRegion)

\* `cloud_emissions[(provider == cloud_provider) & (region != cloud_region)]`
OtherRegionRows(t, cloud_provider, cloud_region) ==
  LET Other(row) == row.provider = cloud_provider /\ row.region # cloud_region
  IN SelectSeq(t, Other)

\* `.sort_values(by="emissions")`: the rows in ascending order of emissions,
\* rows of equal emissions in any order (the default sort is not stable)
SortValues(t) ==
  LET n == Len(t)
      perms == {q \in [1..n -> 1..n] : \A i, j \in 1..n : i # j => q[i] # q[j]}
  IN {[i \in 1..n |-> t[q[i]]] : q \in
        {q \in perms : \A i \in 1..n - 1 :
                         t[q[i]].emissions <= t[q[i + 1]].emissions}}

\* the table has a row for (p, r)
HasRow(t, p, r) ==
  \E i \in 1..Len(t) : t[i].provider = p /\ t[i].region = r

\* the fields of a project's last run: not on a cloud, with empty provider
\* and region, or on a (provider, region) of the table, for which the
\* tracker found the emissions
InitBarchart ==
  /\ TrackerAtRest
  /\ SummaryAtRest /\ AuthAtRest
  /\ \E t \in CloudTables, e \in {1, 2}, on_cloud \in {"Y", "N"} :
       \E p \in (IF on_cloud = "Y" THEN CloudProviders ELSE {""}),
          r \in (IF on_cloud = "Y" THEN CloudRegions ELSE {""}) :
         /\ on_cloud = "Y" => HasRow(t, p, r)
         /\ barchart_args = [kind |-> "args", table |-> t,
                             net_energy_consumed |-> e, on_cloud |-> on_cloud,
                             cloud_provider |-> p, cloud_region |-> r]
  /\ barchart_ret = NoCall

\* the call; `.iloc[0, :]` of a frame with no row raises IndexError
GetCloudEmissionsBarchartData_Call ==
  /\ barchart_args # NoCall
  /\ barchart_ret = NoCall
  /\ IF barchart_args.on_cloud = "N"
     THEN barchart_ret' = [kind |-> "value", providerName |-> "",
                           table |-> <<>>]
     ELSE LET cloud_emissions ==
                WithEmissions(barchart_args.table,
                              barchart_args.net_energy_consumed)
              cloud_emissions_project_region ==
                ProjectRegionRows(cloud_emissions, barchart_args.cloud_region)
              others ==
                OtherRegionRows(cloud_emissions, barchart_args.cloud_provider,
                                barchart_args.cloud_region)
          IN IF cloud_emissions_project_region = <<>>
             THEN barchart_ret' = [kind |-> "raised", error |-> "IndexError"]
             ELSE \E sorted \in SortValues(others) :
                    barchart_ret' =
                      [kind |-> "value",
                       providerName |->
                         cloud_emissions_project_region[1].providerName,
                       table |-> cloud_emissions_project_region \o sorted]
  /\ UNCHANGED <<trackerSide, summaryVars, barchart_args, authVars>>

SpecBarchart == InitBarchart /\ [][GetCloudEmissionsBarchartData_Call]_vars

\* ------------------------------------------- UserWithAuthDependency
UserIds == 1..MaxUsers

\* Python's None, the payload of a token, a user of the database
None == [type |-> "NoneType"]
Payload(has_sub, sub) == [type |-> "dict", has_sub |-> has_sub, sub |-> sub]
User(id) == [type |-> "User", id |-> id]

\* the session cookie: absent, not a JWT, or a JWT with its payload
CookieTokens ==
  {None, [type |-> "str", jwt |-> FALSE, payload |-> None]}
    \cup {[type |-> "str", jwt |-> TRUE, payload |-> Payload(FALSE, 0)]}
    \cup {[type |-> "str", jwt |-> TRUE, payload |-> Payload(TRUE, u)] :
            u \in UserIds}

\* `jwt.decode(cookie_token, options={"verify_signature": False}, ...)`:
\* the payload, or DecodeError for a string that is not a JWT
JwtDecode(cookie_token) ==
  IF cookie_token.jwt
  THEN [kind |-> "value", value |-> cookie_token.payload]
  ELSE [kind |-> "raised", error |-> "DecodeError"]

\* `self.auth_user["sub"]`: TypeError on None, KeyError without the key
Subscript(auth_user) ==
  IF auth_user = None THEN [kind |-> "raised", error |-> "TypeError"]
  ELSE IF ~auth_user.has_sub THEN [kind |-> "raised", error |-> "KeyError"]
  ELSE [kind |-> "value", value |-> auth_user.sub]

\* `user_service.get_user_by_id(id)`: the user of the database; None or an
\* error for an unknown id; an error whenever the database cannot be reached
GetUserById(users, id) ==
  (IF id \in users THEN {[kind |-> "value", value |-> User(id)]}
   ELSE {[kind |-> "value", value |-> None],
         [kind |-> "raised", error |-> "UserNotFound"]})
    \cup {[kind |-> "raised", error |-> "DatabaseError"]}

\* variant: `except KeyError`
ExceptKeyError(error) == error = "KeyError"

\* `except Exception`
ExceptException(error) == TRUE

\* the request: fief's user for the cookie (None without a valid session),
\* the cookie, and the users of the database
InitAuth ==
  /\ TrackerAtRest
  /\ SummaryAtRest /\ BarchartAtRest
  /\ \E cookie_token \in CookieTokens, users \in SUBSET UserIds :
       \E fief_user \in (IF cookie_token # None /\ cookie_token.jwt
                          THEN BOOLEAN ELSE {FALSE}) :
         auth_args = [kind |-> "args",
                      auth_user_cookie |-> IF fief_user
                                           THEN cookie_token.payload ELSE None,
                      cookie_token |-> cookie_token,
                      api_key |-> cookie_token,
                      users |-> users]
  /\ user_dep = NoCall

\* UserWithAuthDependency.__init__
UserWithAuthDependency_Init ==
  /\ auth_args # NoCall
  /\ user_dep = NoCall
  /\ LET decoded == IF auth_args.cookie_token # None
                    THEN JwtDecode(auth_args.cookie_token)
                    ELSE [kind |-> "value", value |-> None]
     IN IF decoded.kind = "raised"
        THEN user_dep' = [kind |-> "raised", error |-> decoded.error]
        ELSE LET auth_user == decoded.value
                 sub == Subscript(auth_user)
             IN \E found \in (IF sub.kind = "raised" THEN {sub}
                               ELSE GetUserById(auth_args.users, sub.value)) :
                  user_dep' =
                    IF found.kind = "value"
                    THEN [kind |-> "constructed", auth_user |-> auth_user,
                          db_user |-> found.value]
                    ELSE IF ExceptException(found.error)
                    THEN [kind |-> "constructed", auth_user |-> auth_user,
                          db_user |-> None]
                    ELSE [kind |-> "raised", error |-> found.error]
  /\ UNCHANGED <<trackerSide, summaryVars, barchartVars, auth_args>>

SpecAuth == InitAuth /\ [][UserWithAuthDependency_Init]_vars

\* ================================================================ claims
\* a step that is a call of stop() / of start()
StopCallStep == Len(calls') = Len(calls) + 1 /\ calls'[Len(calls')] = "stop"
StartCallStep == Len(calls') = Len(calls) + 1 /\ calls'[Len(calls')] = "start"

\* the last call was a stop() that returned a value
StopReturnedValue == pc = "idle" /\ ret.call = "stop" /\ ret.kind = "value"

\* C1: stop() on a tracker whose start timestamp is absent returns None
\* without raising, does not shut down the scheduler, resolves no metadata,
\* builds no record, calls no sink and leaves every field unchanged.
C1_StopWithoutStart ==
  [][(StopCallStep /\ start_time = NoTime)
       => /\ ret' = Returned("stop", "None", 0)
          /\ pc' = "idle"
          /\ UNCHANGED <<trackerVars, schedVars, localVars, records,
                         delivered>>]_vars

C1_Witness ==
  /\ is_gpu_available
  /\ calls = <<"stop">>
  /\ ret = Returned("stop", "None", 0)
  /\ persistence_objs # <<>>

\* C2: the sampler is cancelled before stop() reads the accumulated energy:
\* once the shutdown has returned no instance of the sampler runs, and the
\* energy read for the emissions, the energy_consumed of the record and the
\* accumulated energy are one value, also after stop() has returned.
C2_EnergyStableInStop ==
  /\ pc \in {"cloud", "geo", "duration", "emissions", "data", "out"}
       => sched = "stopped" /\ InFlight = {}
  /\ pc \in {"data", "out"} => energyRead = total_energy
  /\ pc = "out" => data.energy_consumed = total_energy
  /\ StopReturnedValue
       => /\ energyRead = total_energy
          /\ data.energy_consumed = total_energy
          /\ InFlight = {}

C2_Witness ==
  /\ StopReturnedValue
  /\ nFired >= 2
  /\ total_energy > 0
  /\ data.energy_consumed = total_energy

\* C3: a second start() on a Running tracker changes no state: the start
\* timestamp keeps its value, the scheduler is not started again, there is
\* still one job with its next run time, and the energy is untouched.
C3_SecondStartNoChange ==
  [][(StartCallStep /\ start_time # NoTime /\ sched = "running")
       => /\ ret' = Returned("start", "None", 0)
          /\ UNCHANGED <<trackerVars, schedVars, pc, localVars, histVars>>]_vars

C3_Witness ==
  /\ calls = <<"start", "start">>
  /\ sched = "running"
  /\ start_time # NoTime
  /\ start_time < now
  /\ nFired >= 1
  /\ ret = Returned("start", "None", 0)

\* C4: in every reachable state at most one sampler is active: the
\* scheduler holds at most one job and at most one instance of it runs.
C4_AtMostOneSampler ==
  /\ jobs <= 1
  /\ Cardinality(InFlight) <= 1

C4_Witness ==
  /\ sched = "running"
  /\ Cardinality(InFlight) = 1
  /\ nFired >= 1
  /\ nSkipped >= 1

\* C5: Stopped is terminal: once a stop() of a Running tracker has returned,
\* no further start() or stop() builds a record, writes to a sink, restarts
\* the sampler or raises.
C5_StoppedIsTerminal ==
  completed >= 1
    => /\ Len(records) = 1
       /\ Len(delivered) <= Len(persistence_objs)
       /\ sched = "stopped"
       /\ ret.kind # "raised"

\* C6: with no metering capability every start() leaves the tracker Idle
\* (no start timestamp, scheduler not started, zero energy) and stop()
\* returns None, raising nothing and writing nothing.
C6_NoGpuStaysIdle ==
  ~is_gpu_available
    => /\ start_time = NoTime
       /\ sched = "stopped"
       /\ total_energy = 0
       /\ pc = "idle"
       /\ records = <<>>
       /\ delivered = <<>>
       /\ ret.kind \in {"none", "None"}

C6_Witness ==
  /\ ~is_gpu_available
  /\ calls = <<"start", "stop">>
  /\ ret = Returned("stop", "None", 0)
  /\ persistence_objs # <<>>
  /\ now > 0

\* C7: no sample is lost: the accumulated energy is the sum of
\* power * measure_power_secs over the completed firings (as the numerator
\* over KwhDivisor), and what a running instance loaded is still the
\* counter's value, so no other writer came between its load and its store.
C7_NoSampleLost ==
  /\ total_energy = sumCompleted
  /\ \A i \in InFlight : inst[i].loaded = total_energy

C7_Witness ==
  /\ nFired >= 2
  /\ readings = Powers
  /\ total_energy > 0
  /\ InFlight # {}
  /\ nSkipped >= 1

C9_RecordToEverySink ==
  /\ Len(delivered) <= Len(persistence_objs)
  /\ \A k \in 1..Len(delivered) :
       /\ delivered[k].sink = persistence_objs[k]
       /\ delivered[k].record = data
  /\ StopReturnedValue
       => /\ Len(delivered) = Len(persistence_objs)
          /\ records = <<data>>
          /\ ret.value = data.emissions

C9_Witness ==
  /\ StopReturnedValue
  /\ Len(persistence_objs) = 2
  /\ Len(delivered) = 2
  /\ ret.value > 0

\* C10: a failure of a sink's out() during stop() does not abort the run:
\* stop() never passes a sink's error to its caller.
C10_SinkFailureNotFatal ==
  ~(ret.call = "stop" /\ ret.kind = "raised" /\ ret.error = "sink")

\* C11: the record follows the cloud branch: with no provider the emissions
\* are those of private infrastructure for the resolved geo metadata,
\* on_cloud is "N", the cloud fields are empty and the country and region
\* are the geo metadata's; with a provider the emissions are the cloud's,
\* on_cloud is "Y", the cloud fields are the cloud metadata's and the
\* country and region are those of the cloud region.  on_cloud is "N"
\* exactly when the provider is absent.
C11_RecordFollowsCloudBranch ==
  \A k \in 1..Len(records) :
    LET d == records[k]
    IN /\ d.on_cloud \in {"N", "Y"}
       /\ d.on_cloud = "N" <=> cloud.provider = "none"
       /\ IF cloud.provider = "none"
          THEN /\ d.emissions = GetPrivateInfraEmissions(d.energy_consumed, geo)
               /\ d.cloud_provider = "" /\ d.cloud_region = ""
               /\ d.country_name = geo.country_name
               /\ d.country_iso_code = geo.country_iso_code
               /\ d.region = geo.region
          ELSE /\ d.emissions = GetCloudEmissions(d.energy_consumed, cloud)
               /\ d.cloud_provider = cloud.provider
               /\ d.cloud_region = cloud.region
               /\ d.country_name = GetCloudCountryName(cloud)
               /\ d.country_iso_code = GetCloudCountryIsoCode(cloud)
               /\ d.region = GetCloudGeoRegion(cloud)

C11_Witness ==
  /\ StopReturnedValue
  /\ cloud.provider = "aws"
  /\ geo.country_iso_code = "CAN"
  /\ data.on_cloud = "Y"
  /\ data.emissions > 0

\* C12: a failure of the cloud or geo resolution during stop() falls back
\* to private infrastructure with an unknown region: stop() passes no
\* resolution error to its caller, and the tracker is never left with its
\* sampler cancelled and no record built.
C12_ResolutionFailureFallsBack ==
  /\ ~(ret.call = "stop" /\ ret.kind = "raised" /\ ret.error = "resolution")
  /\ (pc = "idle" /\ start_time # NoTime /\ sched = "stopped")
       => records # <<>>

\* C13: an offline tracker made with an absent country ISO code or name
\* fails at construction: every offline tracker that exists was given both,
\* and its country code and name are the ones the caller supplied.
C13_MissingCountryFailsFast ==
  (offline /\ Constructed)
    => /\ arg_iso # "None"
       /\ arg_name # "None"
       /\ country_iso_code = arg_iso
       /\ country_name = arg_name

\* C14: a call of a wrapped function starts a fresh tracker before the body
\* and stops it when the body exits, by return or by exception, so that no
\* sampler of that tracker is active once the wrapped call has ended.
C14_WrappedCallStopsTracker ==
  (entry = "decorator" /\ WrappedEnded /\ Constructed)
    => /\ calls = <<"start", "stop">>
       /\ sched # "running"
       /\ InFlight = {}

\* C15: the accumulated energy changes only while the tracker is Running:
\* it is zero as long as no start() has set the start timestamp, a step
\* changes it only when an instance of the sampler ends, and no step changes
\* it once the shutdown of stop() has returned.
C15_EnergyOnlyWhileRunning ==
  [][/\ start_time' = NoTime => total_energy' = FromEnergy(0)
     /\ total_energy' # total_energy
          => /\ start_time # NoTime
             /\ \E i \in WorkerIds :
                  inst[i].pc = "loaded" /\ inst'[i].pc = "idle"
             /\ nFired' = nFired + 1
     /\ (stopCallTime # NoTime /\ pc # "shutdown")
          => total_energy' = total_energy]_vars

C15_Witness ==
  /\ calls = <<"start", "stop", "start">>
  /\ ret = Returned("start", "None", 0)
  /\ now > stopCallTime
  /\ total_energy > 0
  /\ Len(records) = 1
  /\ records[1].energy_consumed = total_energy

\* C16: stop() cancels the periodic task, then computes the duration, then
\* resolves the metadata: the duration of the record is the time from
\* start() to the return of the shutdown, with none of the time spent on
\* the resolution of the metadata.
C16_DurationExcludesResolution ==
  [][/\ (pc = "duration" /\ pc' = "emissions")
          => duration' = joinTime - start_time
     /\ (pc = "data" /\ pc' = "out")
          => records'[Len(records')].duration = duration]_vars

\* C17: a stop() on a Running tracker comes to an end: unless a resolver
\* or a sink fails, it returns the emissions with the scheduler stopped and
\* no sample in flight; and from the return of its shutdown on no sample
\* starts or ends and the scheduler stays stopped.
C17_StopCompletes ==
  /\ (pc = "shutdown")
       ~> \/ /\ StopReturnedValue
             /\ ret.value = emissions
             /\ sched = "stopped"
             /\ InFlight = {}
             /\ records # <<>>
          \/ ret.call = "stop" /\ ret.error \in {"resolution", "sink"}
  /\ [][(stopCallTime # NoTime /\ pc # "shutdown")
          => /\ nFired' = nFired
             /\ inst' = inst
             /\ next_run_time' = next_run_time
             /\ sched' = "stopped"]_vars

C17_Witness ==
  /\ StopReturnedValue
  /\ calls = <<"start", "stop">>
  /\ joinTime = NoTime
  /\ now > stopCallTime
  /\ nFired >= 1
  /\ nSkipped >= 1
  /\ sched = "stopped"

\* C18: start() waits for no sample: on an Idle tracker with the capability
\* it sets the start timestamp, starts the scheduler and returns, no
\* sample having started or ended in the call; and while the tracker is
\* Running and a run time lies within the horizon MaxTime, a further sample
\* ends, unless stop() is called first.
C18_StartReturnsSamplerFires ==
  /\ [][(StartCallStep /\ start_time = NoTime /\ is_gpu_available)
          => /\ start_time' = now
             /\ sched' = "running"
             /\ ret' = Returned("start", "None", 0)
             /\ pc' = "idle"
             /\ nFired' = nFired
             /\ inst' = inst]_vars
  /\ \A n \in 0..MaxTime :
       (start_time # NoTime /\ stopCallTime = NoTime /\ nFired = n
          /\ (InFlight # {} \/ next_run_time <= MaxTime))
         ~> (nFired > n \/ stopCallTime # NoTime)

C18_Witness ==
  /\ calls = <<"start">>
  /\ pc = "idle"
  /\ sched = "running"
  /\ nFired >= 2
  /\ InFlight # {}
  /\ now = MaxTime

\* C19: the metering capability is detected once, at construction: the flag
\* takes the capability of that moment, never changes afterwards, and a
\* start() on an Idle tracker starts tracking exactly when the flag is set,
\* whatever the capability at the time of the call.
C19_CapabilityCapturedOnce ==
  [][/\ (jobs = 0 /\ jobs' = 1) => is_gpu_available' = gpu_now
     /\ jobs = 1 => is_gpu_available' = is_gpu_available
     /\ (StartCallStep /\ start_time = NoTime)
          => /\ start_time' # NoTime <=> is_gpu_available
             /\ sched' = "running" <=> is_gpu_available]_vars

C19_Witness ==
  /\ calls = <<"start">>
  /\ ~is_gpu_available
  /\ gpu_now
  /\ start_time = NoTime
  /\ sched = "stopped"

\* C20: with the readings of Powers (none negative) the accumulated energy
\* is never negative and no step lowers it, whatever the calls and firings;
\* the energy_consumed of every record is not negative either.
C20_EnergyMonotonic ==
  [][/\ total_energy >= 0
     /\ total_energy' >= total_energy
     /\ \A k \in 1..Len(records') : records'[k].energy_consumed >= 0]_vars

C20_Witness ==
  /\ nFired >= 2
  /\ readings = Powers
  /\ records # <<>>
  /\ records[1].energy_consumed > 0
  /\ records[1].energy_consumed < nFired * measure_power_secs * MaxPower

\* C21: the start timestamp is a one-way latch: only a start() sets it, to
\* the time of the call, a step never changes or clears it once it is set,
\* and the duration stop() computes is measured from it.
C21_StartTimeLatched ==
  [][/\ start_time # NoTime => start_time' = start_time
     /\ start_time' # start_time => StartCallStep /\ start_time' = now
     /\ (pc = "duration" /\ pc' = "emissions")
          => duration' = now - start_time']_vars

C21_Witness ==
  /\ calls = <<"start", "start", "stop">>
  /\ StopReturnedValue
  /\ start_time = 0
  /\ stopCallTime >= 2
  /\ Len(records) = 1
  /\ records[1].duration >= stopCallTime
  /\ now > stopCallTime

\* C22: for an on-cloud project get_cloud_emissions_barchart_data returns
\* only rows of the given provider: the row of the project's (provider,
\* region) first, then the provider's other regions in ascending order of
\* emissions, the project's region not repeated, with the name of the given
\* provider; for on_cloud "N" it returns an empty name and an empty table.
C22_BarchartRowsOfProvider ==
  (barchart_ret # NoCall /\ barchart_ret.kind = "value")
    => LET t == barchart_ret.table
       IN IF barchart_args.on_cloud = "N"
          THEN barchart_ret.providerName = "" /\ t = <<>>
          ELSE /\ t # <<>>
               /\ \A i \in 1..Len(t) :
                    t[i].provider = barchart_args.cloud_provider
               /\ t[1].region = barchart_args.cloud_region
               /\ \A i \in 2..Len(t) :
                    t[i].region # barchart_args.cloud_region
               /\ \A i \in 2..Len(t) - 1 :
                    t[i].emissions <= t[i + 1].emissions
               /\ barchart_ret.providerName =
                    ProviderName(barchart_args.cloud_provider)

\* the lists that differ from l in the order of all elements but the last
Reorderings(l) ==
  LET n == Len(l) - 1
      perms == {q \in [1..n -> 1..n] : \A i, j \in 1..n : i # j => q[i] # q[j]}
  IN {[i \in 1..Len(l) |-> IF i <= n THEN l[q[i]] ELSE l[i]] : q \in perms}

====
